---------------------------- MODULE Spec2Model ----------------------------
(***************************************************************************)
(* Page layout comparison (src/app/mcp/tools/page_layout_comparison.py).   *)
(*                                                                         *)
(* Text is modelled as a sequence of characters, so that str.strip,        *)
(* str.split, sorted and "; ".join are computed rather than assumed.       *)
(* An optional value (an element that may be missing, a dict.get result)   *)
(* is <<>> for None and <<v>> for a value v.                               *)
(*                                                                         *)
(* Two specifications:                                                     *)
(*   SpecParse  _parse_layout and _compare applied to bounded documents    *)
(*   Spec       compare_page_layouts, step by step                         *)
(***************************************************************************)
EXTENDS Integers, Sequences, FiniteSets, TLC

VARIABLES
    \* ---- Spec: one call of compare_page_layouts
    pc,             \* where the call is (see Next)
    names,          \* the validated layout names, in the caller's order
    src_cred,       \* optional (instance_url, access_token, api_version)
    tgt_cred,       \* optional (instance_url, access_token, api_version)
    same_org,       \* line 454
    fetch_side,     \* which _fetch_all_layouts call runs: "source" | "target" | "none"
    retrieve_id,    \* optional text of the <id> element of the submit response
    elapsed,        \* time.time() minus the time the deadline was set, in seconds
    submits,        \* retrieve requests posted, per side
    polls,          \* checkRetrieveStatus requests posted by the running fetch
    sent,           \* optional request posted by the step just taken
    received,       \* optional answer to it, unless the step went to sleep on it
    src_layouts,    \* optional raw artifact map of the source org
    tgt_layouts,    \* optional raw artifact map of the target org
    idx,            \* position of the for loop in names
    csv_rows,       \* rows appended so far
    summary,        \* summary entries appended so far
    csv_file,       \* optional content of the report file on disk
    response,       \* optional value returned to the caller
    \* ---- SpecParse: one application of _parse_layout x2 and _compare
    parse_pc,       \* "input" | "src_parsed" | "parsed" | "compared" | "raised"
    in_src,         \* the source XML text handed to _parse_layout
    in_tgt,         \* the target XML text handed to _parse_layout
    src_data,       \* optional parsed source model
    tgt_data,       \* optional parsed target model
    diff            \* optional result of _compare

parseVars == <<parse_pc, in_src, in_tgt, src_data, tgt_data, diff>>

callVars == <<pc, names, src_cred, tgt_cred, same_org, fetch_side, retrieve_id,
              elapsed, submits, polls, sent, received, src_layouts, tgt_layouts,
              idx, csv_rows,
              summary, csv_file, response>>

vars == <<pc, names, src_cred, tgt_cred, same_org, fetch_side, retrieve_id,
          elapsed, submits, polls, sent, received, src_layouts, tgt_layouts,
          idx, csv_rows,
          summary, csv_file, response,
          parse_pc, in_src, in_tgt, src_data, tgt_data, diff>>

\* ------------------------------------------------------------------ bounds

\* Most layoutSections elements in one generated layout document.
MaxSections == 2

\* Most comma-separated pieces in the layout_names argument.
MaxNames == 3

\* Most entries in a retrieved ZIP archive.
MaxEntries == 2

\* ------------------------------------------------------------------- text

None == <<>>

Some(v) == <<v>>

Range(s) == { s[i] : i \in 1..Len(s) }

\* Code point of the characters the model uses (str comparison is by code point).
CharCode(c) ==
    CASE c = " " -> 32
      [] c = "," -> 44
      [] c = ";" -> 59
      [] c = "A" -> 65
      [] c = "B" -> 66
      [] c = "I" -> 73
      [] c = "N" -> 78
      [] c = "P" -> 80
      [] c = "Q" -> 81
      [] c = "R" -> 82
      [] c = "S" -> 83
      [] c = "T" -> 84
      [] c = "U" -> 85
      [] OTHER   -> 126

IsSpace(c) == c = " "

RECURSIVE lstrip(_)
lstrip(s) == IF s # <<>> /\ IsSpace(Head(s)) THEN lstrip(Tail(s)) ELSE s

RECURSIVE rstrip(_)
rstrip(s) ==
    IF s # <<>> /\ IsSpace(s[Len(s)]) THEN rstrip(SubSeq(s, 1, Len(s) - 1)) ELSE s

\* str.strip()
strip(s) == rstrip(lstrip(s))

\* a < b for str: lexicographic by code point, a proper prefix first.
RECURSIVE StrLess(_, _)
StrLess(a, b) ==
    IF b = <<>> THEN FALSE
    ELSE IF a = <<>> THEN TRUE
    ELSE IF CharCode(Head(a)) # CharCode(Head(b))
         THEN CharCode(Head(a)) < CharCode(Head(b))
    ELSE StrLess(Tail(a), Tail(b))

\* sorted(S) of a set of str.
RECURSIVE sorted(_)
sorted(S) ==
    IF S = {} THEN <<>>
    ELSE LET m == CHOOSE x \in S : \A y \in S \ {x} : StrLess(x, y)
         IN  <<m>> \o sorted(S \ {m})

\* ------------------------------------------------- layout XML documents

\* The text of one layout file, as lxml sees it: not well formed (diag is the
\* parser's diagnostic), or a Layout element with its layoutSections and
\* relatedLists children in document order.
\*   section:  [label   : optional text of <label>,
\*              columns : sequence of layoutColumns, each a sequence of
\*                        layoutItems, each the optional text of <field>]
\*   related:  optional text of <relatedList>
BadXml(d) == [wf |-> FALSE, diag |-> d, sections |-> <<>>, relatedLists |-> <<>>]

GoodXml(secs, rls) == [wf |-> TRUE, diag |-> "", sections |-> secs, relatedLists |-> rls]

\* The empty text "" and a truncated document.
EmptyText == BadXml("Document is empty, line 1, column 1")

TruncatedText == BadXml("Premature end of data in tag Layout line 1")

SectionSet ==
    { [label |-> Some(<<"I">>),
       columns |-> << <<Some(<<"N">>), None, Some(<<"P", " ">>)>>,
                      <<Some(<<>>), Some(<<"Q">>)>> >>],
      [label |-> Some(<<" ", "I">>),
       columns |-> << <<Some(<<"N">>)>> >>],
      [label |-> Some(<<"S">>),
       columns |-> << <<Some(<<" ">>)>>, <<Some(<<"Q">>), Some(<<"N">>)>> >>],
      [label |-> None,
       columns |-> << <<Some(<<"P">>)>> >>],
      [label |-> Some(<<"S">>),
       columns |-> <<>>] }

RelatedListSeqs ==
    { <<>>,
      <<Some(<<"R">>)>>,
      <<None, Some(<<" ">>), Some(<<" ", "T">>), Some(<<"T">>)>> }

SeqsUpTo(S, n) == UNION { [1..k -> S] : k \in 0..n }

LayoutDocs ==
    { GoodXml(secs, rls) : secs \in SeqsUpTo(SectionSet, MaxSections),
                           rls \in RelatedListSeqs }

XmlTexts == LayoutDocs \cup {EmptyText, TruncatedText}

\* ----------------------------------------------------------- _parse_layout

UnnamedSection == <<"U">>

\* label = (lbl_el.text or "").strip() if lbl_el is not None else "Unnamed Section"
SectionLabel(section) ==
    IF section.label = None THEN UnnamedSection ELSE strip(section.label[1])

RECURSIVE ItemFieldsKeepBlank(_)
ItemFieldsKeepBlank(items) ==
    IF items = <<>> THEN <<>>
    ELSE LET f_el == Head(items)
         IN  (IF f_el # None THEN <<strip(f_el[1])>> ELSE <<>>)
             \o ItemFieldsKeepBlank(Tail(items))

\* The inner loop over layoutItems: an item adds its stripped field name when it
\* has a <field> child with non-blank text.
RECURSIVE ItemFields(_)
ItemFields(items) ==
    IF items = <<>> THEN <<>>
    ELSE LET f_el == Head(items)
         IN  (IF f_el # None /\ f_el[1] # <<>> /\ strip(f_el[1]) # <<>>
              THEN <<strip(f_el[1])>> ELSE <<>>) \o ItemFields(Tail(items))

\* The loop over layoutColumns: section_fields of one section.
RECURSIVE SectionFields(_)
SectionFields(columns) ==
    IF columns = <<>> THEN <<>>
    ELSE ItemFields(Head(columns)) \o SectionFields(Tail(columns))

\* An insertion-ordered dict is a sequence of [key, value] with distinct keys.
Keys(d) == { d[i].key : i \in 1..Len(d) }

\* d[k] = v on a Python dict: a new key goes last, a key already there keeps
\* its place and takes the new value.
DictSet(d, k, v) ==
    IF k \in Keys(d)
    THEN [i \in 1..Len(d) |-> IF d[i].key = k THEN [key |-> k, value |-> v] ELSE d[i]]
    ELSE Append(d, [key |-> k, value |-> v])

\* The loop over layoutSections, from the state (sections, all_fields).
RECURSIVE ParseSections(_, _, _)
ParseSections(secs, sections, all_fields) ==
    IF secs = <<>> THEN [sections |-> sections, all_fields |-> all_fields]
    ELSE LET label          == SectionLabel(Head(secs))
             section_fields == SectionFields(Head(secs).columns)
         IN  ParseSections(Tail(secs),
                           DictSet(sections, label, section_fields),
                           all_fields \cup Range(section_fields))

\* The loop over relatedLists.
RECURSIVE ParseRelatedLists(_)
ParseRelatedLists(rls) ==
    IF rls = <<>> THEN {}
    ELSE LET rl_el == Head(rls)
         IN  (IF rl_el # None /\ rl_el[1] # <<>> /\ strip(rl_el[1]) # <<>>
              THEN {strip(rl_el[1])} ELSE {}) \cup ParseRelatedLists(Tail(rls))

NoModel == [sections |-> <<>>, all_fields |-> {}, related_lists |-> {}]

\* _parse_layout(xml_content): the model, or the ValueError it raises.
_parse_layout(xml_content) ==
    IF ~xml_content.wf
    THEN [ok |-> FALSE, value |-> NoModel,
          exc |-> <<"Could not parse layout XML: ", xml_content.diag>>]
    ELSE LET s == ParseSections(xml_content.sections, <<>>, {})
         IN  [ok |-> TRUE,
              value |-> [sections      |-> s.sections,
                         all_fields    |-> s.all_fields,
                         related_lists |-> ParseRelatedLists(xml_content.relatedLists)],
              exc |-> <<>>]

\* ---------------------------------------------------------------- _compare

\* A plausible slip: the two operands of the "missing" difference exchanged.
CompareSwapped(source, target) ==
    LET src_fields   == source.all_fields
        tgt_fields   == target.all_fields
        src_sections == Keys(source.sections)
        tgt_sections == Keys(target.sections)
        src_rl       == source.related_lists
        tgt_rl       == target.related_lists
    IN  [fields_missing_in_target        |-> sorted(tgt_fields \ src_fields),
         fields_extra_in_target          |-> sorted(tgt_fields \ src_fields),
         sections_missing_in_target      |-> sorted(src_sections \ tgt_sections),
         sections_extra_in_target        |-> sorted(tgt_sections \ src_sections),
         related_lists_missing_in_target |-> sorted(src_rl \ tgt_rl),
         related_lists_extra_in_target   |-> sorted(tgt_rl \ src_rl),
         source_field_count              |-> Cardinality(src_fields),
         target_field_count              |-> Cardinality(tgt_fields),
         source_section_count            |-> Cardinality(src_sections),
         target_section_count            |-> Cardinality(tgt_sections),
         source_related_list_count       |-> Cardinality(src_rl),
         target_related_list_count       |-> Cardinality(tgt_rl)]

_compare(source, target) ==
    LET src_fields   == source.all_fields
        tgt_fields   == target.all_fields
        src_sections == Keys(source.sections)
        tgt_sections == Keys(target.sections)
        src_rl       == source.related_lists
        tgt_rl       == target.related_lists
    IN  [fields_missing_in_target        |-> sorted(src_fields \ tgt_fields),
         fields_extra_in_target          |-> sorted(tgt_fields \ src_fields),
         sections_missing_in_target      |-> sorted(src_sections \ tgt_sections),
         sections_extra_in_target        |-> sorted(tgt_sections \ src_sections),
         related_lists_missing_in_target |-> sorted(src_rl \ tgt_rl),
         related_lists_extra_in_target   |-> sorted(tgt_rl \ src_rl),
         source_field_count              |-> Cardinality(src_fields),
         target_field_count              |-> Cardinality(tgt_fields),
         source_section_count            |-> Cardinality(src_sections),
         target_section_count            |-> Cardinality(tgt_sections),
         source_related_list_count       |-> Cardinality(src_rl),
         target_related_list_count       |-> Cardinality(tgt_rl)]

\* --------------------------------------------------------- more str helpers

\* sep.join(lst)
RECURSIVE join(_, _)
join(sep, lst) ==
    IF lst = <<>> THEN <<>>
    ELSE IF Len(lst) = 1 THEN lst[1]
    ELSE lst[1] \o sep \o join(sep, Tail(lst))

RECURSIVE SplitFrom(_, _, _)
SplitFrom(s, c, piece) ==
    IF s = <<>> THEN <<piece>>
    ELSE IF Head(s) = c THEN <<piece>> \o SplitFrom(Tail(s), c, <<>>)
    ELSE SplitFrom(Tail(s), c, Append(piece, Head(s)))

\* s.split(c) for a one-character separator c
split(s, c) == SplitFrom(s, c, <<>>)

\* [n.strip() for n in pieces if n.strip()]
RECURSIVE StripNonBlank(_)
StripNonBlank(pieces) ==
    IF pieces = <<>> THEN <<>>
    ELSE (IF strip(Head(pieces)) # <<>> THEN <<strip(Head(pieces))>> ELSE <<>>)
         \o StripNonBlank(Tail(pieces))

\* Line 436: names = [n.strip() for n in layout_names.split(",") if n.strip()]
ParseNames(layout_names) == StripNonBlank(split(layout_names, ","))

\* The pieces a caller writes between the commas of layout_names.
PieceSet == { <<" ">>, <<"A">>, <<" ", "B">> }

\* The layout_names arguments of the model: up to MaxNames pieces joined by ",".
RawInputs == { join(<<",">>, pieces) : pieces \in SeqsUpTo(PieceSet, MaxNames) }

\* ------------------------------------------------------ raw artifact maps

EmptyMap == [k \in {} |-> EmptyText]

\* m[k] = v on a dict whose order is never read
MapSet(m, k, v) == [x \in DOMAIN m \cup {k} |-> IF x = k THEN v ELSE m[x]]

\* A plausible slip: "if not xml" in place of "if xml is None", which takes
\* an empty text for a missing one.
GetTruthy(m, k) == IF k \in DOMAIN m /\ m[k] # EmptyText THEN Some(m[k]) ELSE None

\* m.get(k): None when k is not a key of m
Get(m, k) == IF k \in DOMAIN m THEN Some(m[k]) ELSE None

\* --------------------------------------------------- _get_org_credentials

ApiVersion == "59.0"

Exc(type, msg) == [type |-> type, msg |-> msg]

NoExc == Exc("", <<>>)

Cred(url, token) == [instance_url |-> url, access_token |-> token, api_version |-> ApiVersion]

\* What get_salesforce_connection() gives when an org is active.
ActiveConn == Cred("https://x.my.salesforce.com", "t1")

\* get_stored_tokens(): u1 is the active org again, u2 another session on the
\* same instance, u3 another instance that happens to hold an equal token.
StoredTokens ==
    [u \in {"u1", "u2", "u3"} |->
        CASE u = "u1" -> ActiveConn
          [] u = "u2" -> Cred("https://x.my.salesforce.com", "t2")
          [] u = "u3" -> Cred("https://y.my.salesforce.com", "t1")]

\* The values of source_org_user_id / target_org_user_id; u9 has no session.
UserIds == { None, Some("u1"), Some("u2"), Some("u3"), Some("u9") }

\* conn is the optional active connection of the moment.
_get_org_credentials(user_id, conn) ==
    IF user_id = None
    THEN IF conn = None
         THEN [ok |-> FALSE, value |-> ActiveConn,
               exc |-> Exc("Exception", <<"no active Salesforce connection">>)]
         ELSE [ok |-> TRUE, value |-> conn[1], exc |-> NoExc]
    ELSE IF user_id[1] \notin DOMAIN StoredTokens
         THEN [ok |-> FALSE, value |-> ActiveConn,
               exc |-> Exc("ValueError",
                           <<"No active session found for org user_id='", user_id[1], "'">>)]
         ELSE [ok |-> TRUE, value |-> StoredTokens[user_id[1]], exc |-> NoExc]

\* A plausible slip: the source URL compared with the target token.
SameOrgMixedUp(src, tgt) ==
    src.instance_url = tgt.access_token /\ src.access_token = tgt.access_token

\* Line 454: same_org = (src_url == tgt_url and src_token == tgt_token)
SameOrg(src, tgt) ==
    src.instance_url = tgt.instance_url /\ src.access_token = tgt.access_token

\* ------------------------------------------------ _extract_layouts_from_zip

\* One archive entry: its path is dir + "/" + base + suffix; data is the bytes,
\* which decode as UTF-8 to a text or do not decode.
Entry(dir, base, suffix, decodable, text) ==
    [dir |-> dir, base |-> base, suffix |-> suffix, decodable |-> decodable, text |-> text]

\* Two layouts; the second section of LayoutA has a blank label, which
\* _parse_layout strips to the empty label.
LayoutA == GoodXml(<<CHOOSE s \in SectionSet : s.label = Some(<<"I">>),
                     [label |-> Some(<<" ">>), columns |-> <<>>]>>,
                   <<Some(<<"R">>)>>)

LayoutB == GoodXml(<<CHOOSE s \in SectionSet : s.label = None,
                     CHOOSE s \in SectionSet : s.label = Some(<<" ", "I">>)>>,
                   <<>>)

\* The file contents an org serves: an empty file, a truncated one, two layouts.
ServedTexts == { EmptyText, TruncatedText, LayoutA, LayoutB }

EntrySet ==
    { Entry("unpackaged/layouts", b, ".layout-meta.xml", TRUE, t) :
          b \in { <<"A">>, <<"B">> }, t \in ServedTexts }
    \cup { Entry("unpackaged/layouts", <<"A">>, ".layout", FALSE, EmptyText),
           Entry("unpackaged", <<"B">>, ".xml", TRUE, LayoutA) }

Archives == SeqsUpTo(EntrySet, MaxEntries)

\* The two filters of lines 199-202.
IsLayoutEntry(entry) ==
    /\ entry.dir = "unpackaged/layouts"
    /\ entry.suffix \in { ".layout-meta.xml", ".layout" }

\* The loop over zf.namelist(), from the dict built so far; a later entry of
\* the same base name overwrites an earlier one; bytes that do not decode
\* raise UnicodeDecodeError out of the function.
RECURSIVE ExtractFrom(_, _)
ExtractFrom(entries, result) ==
    IF entries = <<>> THEN [ok |-> TRUE, value |-> result, exc |-> NoExc]
    ELSE LET entry == Head(entries)
         IN  IF ~IsLayoutEntry(entry) THEN ExtractFrom(Tail(entries), result)
             ELSE IF ~entry.decodable
                  THEN [ok |-> FALSE, value |-> EmptyMap,
                        exc |-> Exc("UnicodeDecodeError", <<"'utf-8' codec can't decode">>)]
             ELSE ExtractFrom(Tail(entries), MapSet(result, entry.base, entry.text))

_extract_layouts_from_zip(zip_bytes) == ExtractFrom(zip_bytes, EmptyMap)

\* -------------------------------------------------------- _fetch_all_layouts

\* time.time() + 120 (line 153) and time.sleep(3) (line 160)
DeadlineSeconds == 120

SleepSeconds == 3

\* What the server answers to the retrieve request: http_ok is status 200, wf
\* is a body etree.fromstring accepts, id is the optional <id> element, holding
\* its text ("" for an element without text, whose .text lxml gives as None).
SubmitResponses ==
    { [http_ok |-> FALSE, wf |-> TRUE,  id |-> None],
      [http_ok |-> TRUE,  wf |-> FALSE, id |-> None],
      [http_ok |-> TRUE,  wf |-> TRUE,  id |-> None],
      [http_ok |-> TRUE,  wf |-> TRUE,  id |-> Some("")],
      [http_ok |-> TRUE,  wf |-> TRUE,  id |-> Some("09S1")] }

StatusResponse(ok, done, status, err, zip) ==
    [http_ok |-> ok, wf |-> TRUE, done |-> done, status |-> status,
     errorMessage |-> err, zipFile |-> zip]

\* What the server answers to checkRetrieveStatus: the optional <done>,
\* <status>, <errorMessage> and <zipFile> elements, each holding its text.
StatusResponses ==
    { StatusResponse(FALSE, None, None, None, None),
      [StatusResponse(TRUE, None, None, None, None) EXCEPT !.wf = FALSE],
      StatusResponse(TRUE, None, None, None, None),
      StatusResponse(TRUE, Some("false"), Some("InProgress"), None, None),
      StatusResponse(TRUE, Some("false"), Some("Failed"), Some("boom"), None),
      StatusResponse(TRUE, Some("true"), Some("Failed"), Some("boom"), None),
      StatusResponse(TRUE, Some("true"), Some("Failed"), None, None),
      StatusResponse(TRUE, Some("true"), Some("Succeeded"), None, None),
      StatusResponse(TRUE, Some("true"), Some("Succeeded"), None, Some("")),
      StatusResponse(TRUE, Some("true"), Some("Succeeded"), None, Some("UEsDBA==")),
      StatusResponse(TRUE, Some("true"), None, None, Some("UEsDBA==")) }

HttpError(action) ==
    Exc("RuntimeError", <<"Metadata API call '", action, "' failed">>)

\* etree.fromstring rejects the body of the response.
XMLSyntaxError == Exc("XMLSyntaxError", <<"response is not well-formed XML">>)

\* _soap_post on the answer r: the root element, or the exception raised.
_soap_post(action, r) ==
    IF ~r.http_ok THEN [ok |-> FALSE, exc |-> HttpError(action)]
    ELSE IF ~r.wf THEN [ok |-> FALSE, exc |-> XMLSyntaxError]
    ELSE [ok |-> TRUE, exc |-> NoExc]

\* An element's text inside an f-string: the text of an element without text
\* is None, which formats as "None".
FormatText(t) == IF t = "" THEN "None" ELSE t

\* One <met:members> element per name, in the order of layout_names.
_build_retrieve_envelope(token, api_version, layout_names) ==
    [action |-> "retrieve", sessionId |-> token, apiVersion |-> api_version,
     members |-> layout_names, name |-> "Layout"]

\* id_text is the parameter retrieve_id.
_build_status_envelope(token, api_version, id_text) ==
    [action |-> "checkRetrieveStatus", sessionId |-> token,
     asyncProcessId |-> FormatText(id_text), includeZip |-> "true"]

\* requests.post(meta_url, data=body, ...), meta_url as line 139 builds it.
Request(instance_url, api_version, body) ==
    [url |-> <<instance_url, "/services/Soap/m/", api_version>>, body |-> body]

\* done_el is not None and done_el.text == "true"
Done(r) == r.done = Some("true")

\* status_el is not None and status_el.text == "Failed"
Failed(r) == r.status = Some("Failed")

RetrieveFailedAsTimeout(r) ==
    Exc("TimeoutError", <<"did not complete within 120 s">>)

RetrieveFailedNoMessage(r) ==
    Exc("RuntimeError", <<"Retrieve failed: ", "unknown error">>)

\* The exception of lines 167-170, with the text of <errorMessage>.
RetrieveFailed(r) ==
    Exc("RuntimeError",
        <<"Retrieve failed: ",
          IF r.errorMessage # None THEN FormatText(r.errorMessage[1])
          ELSE "unknown error">>)

EmptyPayloadOnlyMissing(r) == r.zipFile = None

\* zip_el is None or not zip_el.text
EmptyPayload(r) == r.zipFile = None \/ r.zipFile = Some("")

\* ------------------------------------------------------------- CSV helpers

CSV_COLUMNS ==
    << "Source Layout Name", "Target Layout Name", "Status",
       "Fields Missing in Target", "Fields Extra in Target",
       "Fields Missing Count", "Fields Extra Count",
       "Sections Missing in Target", "Sections Extra in Target",
       "Sections Missing Count", "Sections Extra Count",
       "Related Lists Missing in Target", "Related Lists Extra in Target",
       "Related Lists Missing Count", "Related Lists Extra Count",
       "Source Field Count", "Target Field Count",
       "Source Section Count", "Target Section Count",
       "Source Related List Count", "Target Related List Count" >>

\* A cell "" is <<>>; an integer cell n is <<n>>; a Status cell is the sequence
\* of the pieces its f-string is made of.
Blank == <<>>

IntCell(n) == <<n>>

\* "; ".join(lst) if lst else ""
_cell(lst) == IF lst # <<>> THEN join(<<";", " ">>, lst) ELSE Blank

\* A plausible slip: every cell that is not a name or the status starts at 0.
BlankRowZeros(source_name, target_name, status) ==
    [col \in Range(CSV_COLUMNS) |->
        CASE col = "Source Layout Name" -> source_name
          [] col = "Target Layout Name" -> target_name
          [] col = "Status"             -> status
          [] OTHER                      -> IntCell(0)]

_blank_row(source_name, target_name, status) ==
    [col \in Range(CSV_COLUMNS) |->
        CASE col = "Source Layout Name" -> source_name
          [] col = "Target Layout Name" -> target_name
          [] col = "Status"             -> status
          [] OTHER                      -> Blank]

\* Lines 505-523: the row of a compared layout.
ComparedRow(name, d) ==
    [_blank_row(name, name, <<"Compared">>) EXCEPT
        !["Fields Missing in Target"]        = _cell(d.fields_missing_in_target),
        !["Fields Extra in Target"]          = _cell(d.fields_extra_in_target),
        !["Fields Missing Count"]            = IntCell(Len(d.fields_missing_in_target)),
        !["Fields Extra Count"]              = IntCell(Len(d.fields_extra_in_target)),
        !["Sections Missing in Target"]      = _cell(d.sections_missing_in_target),
        !["Sections Extra in Target"]        = _cell(d.sections_extra_in_target),
        !["Sections Missing Count"]          = IntCell(Len(d.sections_missing_in_target)),
        !["Sections Extra Count"]            = IntCell(Len(d.sections_extra_in_target)),
        !["Related Lists Missing in Target"] = _cell(d.related_lists_missing_in_target),
        !["Related Lists Extra in Target"]   = _cell(d.related_lists_extra_in_target),
        !["Related Lists Missing Count"]     = IntCell(Len(d.related_lists_missing_in_target)),
        !["Related Lists Extra Count"]       = IntCell(Len(d.related_lists_extra_in_target)),
        !["Source Field Count"]              = IntCell(d.source_field_count),
        !["Target Field Count"]              = IntCell(d.target_field_count),
        !["Source Section Count"]            = IntCell(d.source_section_count),
        !["Target Section Count"]            = IntCell(d.target_section_count),
        !["Source Related List Count"]       = IntCell(d.source_related_list_count),
        !["Target Related List Count"]       = IntCell(d.target_related_list_count)]

\* One summary entry; error and counts are the keys only some entries have.
SummaryEntry(name, status, error, counts) ==
    [layout |-> name, status |-> status, error |-> error, counts |-> counts]

\* Lines 526-535
ComparedSummary(name, d) ==
    SummaryEntry(name, "compared", None,
        Some([fields_missing        |-> Len(d.fields_missing_in_target),
              fields_extra          |-> Len(d.fields_extra_in_target),
              sections_missing      |-> Len(d.sections_missing_in_target),
              sections_extra        |-> Len(d.sections_extra_in_target),
              related_lists_missing |-> Len(d.related_lists_missing_in_target),
              related_lists_extra   |-> Len(d.related_lists_extra_in_target)]))

\* What one loop iteration does: it appends row and summ, or an exception
\* leaves the loop for the handler of lines 574-576.
Outcome(row, summ) == [raised |-> None, row |-> row, summ |-> summ]

Escapes(e) ==
    [raised |-> Some(e), row |-> _blank_row(Blank, Blank, Blank),
     summ |-> SummaryEntry(Blank, "", None, None)]

\* ---------------------------------- compare_page_layouts: one loop iteration

\* A plausible slip: the source text parsed for both sides.
ParseBothFromSource(src_xml, tgt_xml) ==
    LET s == _parse_layout(src_xml)
    IN  IF ~s.ok THEN [ok |-> FALSE, src |-> NoModel, tgt |-> NoModel, exc |-> s.exc]
        ELSE [ok |-> TRUE, src |-> s.value, tgt |-> s.value, exc |-> <<>>]

\* Lines 495-501: the try block around the two parses; the source is parsed
\* first and a failure there leaves the target unparsed.
ParseBoth(src_xml, tgt_xml) ==
    LET s == _parse_layout(src_xml)
    IN  IF ~s.ok THEN [ok |-> FALSE, src |-> NoModel, tgt |-> NoModel, exc |-> s.exc]
        ELSE LET t == _parse_layout(tgt_xml)
             IN  IF ~t.ok
                 THEN [ok |-> FALSE, src |-> NoModel, tgt |-> NoModel, exc |-> t.exc]
                 ELSE [ok |-> TRUE, src |-> s.value, tgt |-> t.value, exc |-> <<>>]

\* A plausible slip: the two one-sided statuses exchanged.
NotFoundSwapped(name, src_xml, tgt_xml) ==
    IF src_xml = None /\ tgt_xml = None
    THEN Outcome(_blank_row(name, name, <<"Not Found in Either Org">>),
                 SummaryEntry(name, "not_found_both", None, None))
    ELSE IF src_xml = None
    THEN Outcome(_blank_row(name, name, <<"Target Not Found">>),
                 SummaryEntry(name, "target_not_found", None, None))
    ELSE Outcome(_blank_row(name, name, <<"Source Not Found">>),
                 SummaryEntry(name, "source_not_found", None, None))

\* Lines 479-492: the three not-found cases, for a name missing from a map.
NotFound(name, src_xml, tgt_xml) ==
    IF src_xml = None /\ tgt_xml = None
    THEN Outcome(_blank_row(name, name, <<"Not Found in Either Org">>),
                 SummaryEntry(name, "not_found_both", None, None))
    ELSE IF src_xml = None
    THEN Outcome(_blank_row(name, name, <<"Source Not Found">>),
                 SummaryEntry(name, "source_not_found", None, None))
    ELSE Outcome(_blank_row(name, name, <<"Target Not Found">>),
                 SummaryEntry(name, "target_not_found", None, None))

\* A plausible slip: the handler names another exception type, and the
\* ValueError of _parse_layout leaves the loop.
ParseFailureEscapes(name, parse_err) == Escapes(Exc("ValueError", parse_err))

\* Lines 498-501: except Exception as parse_err
ParseFailure(name, parse_err) ==
    Outcome(_blank_row(name, name, <<"Parse Error: ">> \o parse_err),
            SummaryEntry(name, "parse_error", Some(parse_err), None))

\* Lines 475-535: the body of the loop for one requested name.
ClassifyArtifact(name, src_map, tgt_map) ==
    LET src_xml == Get(src_map, name)
        tgt_xml == Get(tgt_map, name)
    IN  IF src_xml = None \/ tgt_xml = None
        THEN NotFound(name, src_xml, tgt_xml)
        ELSE LET p == ParseBoth(src_xml[1], tgt_xml[1])
             IN  IF ~p.ok
                 THEN ParseFailure(name, p.exc)
                 ELSE LET d == _compare(p.src, p.tgt)
                      IN  Outcome(ComparedRow(name, d), ComparedSummary(name, d))

\* A plausible slip: the rows follow another order than the caller's.
LoopItemReversed(nms, i) == nms[Len(nms) + 1 - i]

\* Line 474: for name in names
LoopItem(nms, i) == nms[i]

\* ------------------------------------------ compare_page_layouts: responses

\* format_error_response(e, context=...)
ErrorResponse(e, context) == [success |-> FALSE, error |-> e, context |-> context]

\* len([s for s in summary if <test on s["status"]>])
CountStatus(summ, statuses) ==
    Cardinality({ i \in 1..Len(summ) : summ[i].status \in statuses })

\* s["status"] == "compared"
ComparedStatuses == { "compared" }

NotFoundSummaryExact == { "not_found" }

\* "not_found" in s.get("status", ""): the statuses that hold the substring
NotFoundSummaryStatuses == { "not_found_both", "source_not_found", "target_not_found" }

\* s.get("status") == "parse_error"
ErrorStatuses == { "parse_error" }

\* Lines 556-572
SuccessResponse(nms, summ, same, src, tgt) ==
    [success       |-> TRUE,
     total_layouts |-> Len(nms),
     compared      |-> CountStatus(summ, ComparedStatuses),
     not_found     |-> CountStatus(summ, NotFoundSummaryStatuses),
     errors        |-> CountStatus(summ, ErrorStatuses),
     same_org      |-> same,
     source_org    |-> src.instance_url,
     target_org    |-> tgt.instance_url,
     api_version   |-> src.api_version,
     summary       |-> summ]

\* -------------------------------------------- Spec: compare_page_layouts

Sides == { "source", "target" }

CallInit ==
    /\ pc = "start"
    /\ names = <<>>
    /\ src_cred = None
    /\ tgt_cred = None
    /\ same_org = FALSE
    /\ fetch_side = "none"
    /\ retrieve_id = None
    /\ elapsed = 0
    /\ submits = [s \in Sides |-> 0]
    /\ polls = 0
    /\ sent = None
    /\ received = None
    /\ src_layouts = None
    /\ tgt_layouts = None
    /\ idx = 1
    /\ csv_rows = <<>>
    /\ summary = <<>>
    /\ csv_file = None
    /\ response = None

\* The variables of the other specification, at rest.
ParseIdle ==
    /\ parse_pc = "idle"
    /\ in_src = EmptyText
    /\ in_tgt = EmptyText
    /\ src_data = None
    /\ tgt_data = None
    /\ diff = None

CallIdle ==
    /\ pc = "idle"
    /\ names = <<>>
    /\ src_cred = None
    /\ tgt_cred = None
    /\ same_org = FALSE
    /\ fetch_side = "none"
    /\ retrieve_id = None
    /\ elapsed = 0
    /\ submits = [s \in Sides |-> 0]
    /\ polls = 0
    /\ sent = None
    /\ received = None
    /\ src_layouts = None
    /\ tgt_layouts = None
    /\ idx = 1
    /\ csv_rows = <<>>
    /\ summary = <<>>
    /\ csv_file = None
    /\ response = None

Init == CallInit /\ ParseIdle

\* The step posts no request.
NoTraffic == sent' = None /\ received' = None

ValidateUnchecked ==
    /\ pc = "start"
    /\ \E layout_names \in RawInputs :
         /\ names' = ParseNames(layout_names)
         /\ response' = response
         /\ pc' = "creds_source"
    /\ UNCHANGED <<src_cred, tgt_cred, same_org, fetch_side, retrieve_id, elapsed,
                   submits, polls, src_layouts, tgt_layouts, idx, csv_rows, summary,
                   csv_file>>
    /\ NoTraffic
    /\ UNCHANGED parseVars

\* Lines 435-441: split and validate layout_names.
Validate ==
    /\ pc = "start"
    /\ \E layout_names \in RawInputs :
         /\ names' = ParseNames(layout_names)
         /\ IF names' = <<>>
            THEN /\ response' = Some(ErrorResponse(
                                   Exc("ValueError", <<"layout_names must not be empty.">>),
                                   "compare_page_layouts"))
                 /\ pc' = "returned"
            ELSE /\ response' = response
                 /\ pc' = "creds_source"
    /\ UNCHANGED <<src_cred, tgt_cred, same_org, fetch_side, retrieve_id, elapsed,
                   submits, polls, src_layouts, tgt_layouts, idx, csv_rows, summary,
                   csv_file>>
    /\ NoTraffic
    /\ UNCHANGED parseVars

GetSourceCredentialsGoesOn ==
    /\ pc = "creds_source"
    /\ \E source_org_user_id \in UserIds, conn \in { None, Some(ActiveConn) } :
         LET r == _get_org_credentials(source_org_user_id, conn)
         IN  /\ src_cred' = Some(r.value)
             /\ pc' = "creds_target"
             /\ response' = IF r.ok THEN response
                            ELSE Some(ErrorResponse(r.exc,
                                        "compare_page_layouts (source org)"))
    /\ UNCHANGED <<names, tgt_cred, same_org, fetch_side, retrieve_id, elapsed,
                   submits, polls, src_layouts, tgt_layouts, idx, csv_rows, summary,
                   csv_file>>
    /\ NoTraffic
    /\ UNCHANGED parseVars

\* Lines 444-447
GetSourceCredentials ==
    /\ pc = "creds_source"
    /\ \E source_org_user_id \in UserIds, conn \in { None, Some(ActiveConn) } :
         LET r == _get_org_credentials(source_org_user_id, conn)
         IN  IF r.ok
             THEN /\ src_cred' = Some(r.value)
                  /\ pc' = "creds_target"
                  /\ response' = response
             ELSE /\ src_cred' = src_cred
                  /\ pc' = "returned"
                  /\ response' = Some(ErrorResponse(r.exc,
                                        "compare_page_layouts (source org)"))
    /\ UNCHANGED <<names, tgt_cred, same_org, fetch_side, retrieve_id, elapsed,
                   submits, polls, src_layouts, tgt_layouts, idx, csv_rows, summary,
                   csv_file>>
    /\ NoTraffic
    /\ UNCHANGED parseVars

\* Lines 449-454: the target credentials, then same_org; the source fetch is next.
GetTargetCredentials ==
    /\ pc = "creds_target"
    /\ \E target_org_user_id \in UserIds, conn \in { None, Some(ActiveConn) } :
         LET r == _get_org_credentials(target_org_user_id, conn)
         IN  IF r.ok
             THEN /\ tgt_cred' = Some(r.value)
                  /\ same_org' = SameOrg(src_cred[1], r.value)
                  /\ pc' = "submit"
                  /\ fetch_side' = "source"
                  /\ response' = response
             ELSE /\ tgt_cred' = tgt_cred
                  /\ same_org' = same_org
                  /\ pc' = "returned"
                  /\ fetch_side' = fetch_side
                  /\ response' = Some(ErrorResponse(r.exc,
                                        "compare_page_layouts (target org)"))
    /\ UNCHANGED <<names, src_cred, retrieve_id, elapsed, submits, polls,
                   src_layouts, tgt_layouts, idx, csv_rows, summary, csv_file>>
    /\ NoTraffic
    /\ UNCHANGED parseVars

FetchContext ==
    IF fetch_side = "source" THEN "compare_page_layouts (fetch source layouts)"
    ELSE "compare_page_layouts (fetch target layouts)"

\* The url and token lines 458 and 466 pass to _fetch_all_layouts.
FetchCred == IF fetch_side = "source" THEN src_cred[1] ELSE tgt_cred[1]

\* api_ver, which line 445 takes from the source's credentials for both calls.
FetchApiVersion == src_cred[1].api_version

FetchReturnsSkipsTarget(m) ==
    /\ response' = response
    /\ retrieve_id' = None
    /\ elapsed' = 0
    /\ polls' = 0
    /\ src_layouts' = IF fetch_side = "source" THEN Some(m) ELSE src_layouts
    /\ tgt_layouts' = Some(m)
    /\ pc' = "classify"
    /\ fetch_side' = "none"

\* _fetch_all_layouts returns m: lines 458 and 462-466. After the source fetch
\* the same map serves as the target's when same_org, else the target fetch
\* starts; after the target fetch the loop starts.
FetchReturns(m) ==
    /\ response' = response
    /\ retrieve_id' = None
    /\ elapsed' = 0
    /\ polls' = 0
    /\ IF fetch_side = "source"
       THEN /\ src_layouts' = Some(m)
            /\ IF same_org
               THEN /\ tgt_layouts' = Some(m)
                    /\ pc' = "classify"
                    /\ fetch_side' = "none"
               ELSE /\ tgt_layouts' = tgt_layouts
                    /\ pc' = "submit"
                    /\ fetch_side' = "target"
       ELSE /\ src_layouts' = src_layouts
            /\ tgt_layouts' = Some(m)
            /\ pc' = "classify"
            /\ fetch_side' = "none"

FetchRaisesGoesOn(e) == FetchReturns(EmptyMap)

\* _fetch_all_layouts raises e: lines 459-460 and 467-468 return the error.
FetchRaises(e) ==
    /\ pc' = "returned"
    /\ response' = Some(ErrorResponse(e, FetchContext))
    /\ fetch_side' = "none"
    /\ retrieve_id' = None
    /\ elapsed' = 0
    /\ polls' = 0
    /\ UNCHANGED <<src_layouts, tgt_layouts>>

\* Lines 141-153: post the retrieve request, read the job id, set the deadline.
Submit ==
    /\ pc = "submit"
    /\ submits' = [submits EXCEPT ![fetch_side] = @ + 1]
    /\ sent' = Some(Request(FetchCred.instance_url, FetchApiVersion,
                            _build_retrieve_envelope(FetchCred.access_token,
                                                     FetchApiVersion, names)))
    /\ \E r \in SubmitResponses :
         LET root == _soap_post("retrieve", r)
         IN  /\ received' = Some(r)
             /\ IF ~root.ok THEN FetchRaises(root.exc)
                ELSE IF r.id = None
                THEN FetchRaises(Exc("RuntimeError", <<"No retrieve ID returned">>))
                ELSE /\ retrieve_id' = r.id
                     /\ elapsed' = 0
                     /\ pc' = "poll"
                     /\ UNCHANGED <<response, fetch_side, polls, src_layouts,
                                    tgt_layouts>>
    /\ UNCHANGED <<names, src_cred, tgt_cred, same_org, idx, csv_rows,
                   summary, csv_file>>
    /\ UNCHANGED parseVars

\* Lines 154-179: one pass of the while loop: post a status request and act on
\* the answer. The loop's locals (the clock, the job id, the poll count) are
\* never read after the loop is left, and are cleared on every way out of it.
Poll ==
    /\ pc = "poll"
    /\ elapsed < DeadlineSeconds
    /\ sent' = Some(Request(FetchCred.instance_url, FetchApiVersion,
                            _build_status_envelope(FetchCred.access_token,
                                                   FetchApiVersion,
                                                   retrieve_id[1])))
    /\ \E r \in StatusResponses :
         LET status_root == _soap_post("checkRetrieveStatus", r)
         IN  IF ~status_root.ok
             THEN /\ FetchRaises(status_root.exc)
                  /\ received' = Some(r)
             ELSE IF ~Done(r)
             THEN /\ elapsed' = elapsed + SleepSeconds
                  /\ polls' = polls + 1
                  /\ received' = None
                  /\ UNCHANGED <<pc, response, fetch_side, retrieve_id, src_layouts,
                                 tgt_layouts>>
             ELSE IF Failed(r)
             THEN /\ FetchRaises(RetrieveFailed(r))
                  /\ received' = Some(r)
             ELSE IF EmptyPayload(r)
             THEN /\ FetchReturns(EmptyMap)
                  /\ received' = Some(r)
             ELSE /\ pc' = "decode"
                  /\ polls' = 0
                  /\ elapsed' = 0
                  /\ retrieve_id' = None
                  /\ received' = Some(r)
                  /\ UNCHANGED <<response, fetch_side, src_layouts, tgt_layouts>>
    /\ UNCHANGED <<names, src_cred, tgt_cred, same_org, submits, idx, csv_rows,
                   summary, csv_file>>
    /\ UNCHANGED parseVars

PollTimeoutReturnsEmpty ==
    /\ pc = "poll"
    /\ ~(elapsed < DeadlineSeconds)
    /\ FetchReturns(EmptyMap)
    /\ NoTraffic
    /\ UNCHANGED <<names, src_cred, tgt_cred, same_org, submits, idx,
                   csv_rows, summary, csv_file>>
    /\ UNCHANGED parseVars

\* Lines 154 and 181-183: the loop condition fails, TimeoutError.
PollTimeout ==
    /\ pc = "poll"
    /\ ~(elapsed < DeadlineSeconds)
    /\ FetchRaises(Exc("TimeoutError", <<"did not complete within 120 s">>))
    /\ NoTraffic
    /\ UNCHANGED <<names, src_cred, tgt_cred, same_org, submits, idx,
                   csv_rows, summary, csv_file>>
    /\ UNCHANGED parseVars

\* Line 178: base64.b64decode of the payload's text.
Decode ==
    /\ pc = "decode"
    /\ pc' = "extract"
    /\ NoTraffic
    /\ UNCHANGED <<names, src_cred, tgt_cred, same_org, fetch_side, retrieve_id,
                   elapsed, submits, polls, src_layouts, tgt_layouts, idx, csv_rows,
                   summary, csv_file, response>>
    /\ UNCHANGED parseVars

\* Line 179: unpack the archive. The archive the payload holds is read here for
\* the first time, so it is chosen here.
Extract ==
    /\ pc = "extract"
    /\ \E zip_bytes \in Archives :
         LET r == _extract_layouts_from_zip(zip_bytes)
         IN  IF r.ok THEN FetchReturns(r.value) ELSE FetchRaises(r.exc)
    /\ NoTraffic
    /\ UNCHANGED <<names, src_cred, tgt_cred, same_org, submits, idx,
                   csv_rows, summary, csv_file>>
    /\ UNCHANGED parseVars

\* Lines 474-535: one iteration of the for loop. An exception that leaves the
\* body ends the call in the handler of lines 574-576.
ClassifyNext ==
    /\ pc = "classify"
    /\ idx <= Len(names)
    /\ LET o == ClassifyArtifact(LoopItem(names, idx), src_layouts[1], tgt_layouts[1])
       IN  IF o.raised # None
           THEN /\ response' = Some(ErrorResponse(o.raised[1], "compare_page_layouts"))
                /\ pc' = "returned"
                /\ UNCHANGED <<csv_rows, summary, idx>>
           ELSE /\ csv_rows' = Append(csv_rows, o.row)
                /\ summary' = Append(summary, o.summ)
                /\ idx' = idx + 1
                /\ UNCHANGED <<pc, response>>
    /\ UNCHANGED <<names, src_cred, tgt_cred, same_org, fetch_side, retrieve_id,
                   elapsed, submits, polls, src_layouts, tgt_layouts, csv_file>>
    /\ NoTraffic
    /\ UNCHANGED parseVars

\* Lines 537-572: the loop is over; write the file and return the summary.
WriteCsv ==
    /\ pc = "classify"
    /\ idx > Len(names)
    /\ csv_file' = Some([header |-> CSV_COLUMNS, rows |-> csv_rows])
    /\ response' = Some(SuccessResponse(names, summary, same_org, src_cred[1],
                                        tgt_cred[1]))
    /\ pc' = "returned"
    /\ UNCHANGED <<names, src_cred, tgt_cred, same_org, fetch_side, retrieve_id,
                   elapsed, submits, polls, src_layouts, tgt_layouts, idx, csv_rows,
                   summary>>
    /\ NoTraffic
    /\ UNCHANGED parseVars

\* Lines 539-554 and 574-576: the directory or the file cannot be created; the
\* outer handler returns the error.
WriteCsvFails ==
    /\ pc = "classify"
    /\ idx > Len(names)
    /\ response' = Some(ErrorResponse(Exc("OSError", <<"cannot write the report">>),
                                      "compare_page_layouts"))
    /\ pc' = "returned"
    /\ UNCHANGED <<names, src_cred, tgt_cred, same_org, fetch_side, retrieve_id,
                   elapsed, submits, polls, src_layouts, tgt_layouts, idx, csv_rows,
                   summary, csv_file>>
    /\ NoTraffic
    /\ UNCHANGED parseVars

Next ==
    \/ Validate
    \/ GetSourceCredentials
    \/ GetTargetCredentials
    \/ Submit
    \/ Poll
    \/ PollTimeout
    \/ Decode
    \/ Extract
    \/ ClassifyNext
    \/ WriteCsv
    \/ WriteCsvFails

Spec == Init /\ [][Next]_vars

\* ------------------------------------------------ SpecParse: the pure core

\* The try block of compare_page_layouts around the two parses, then _compare,
\* on any two texts.
ParseInit ==
    /\ parse_pc = "input"
    /\ in_src \in XmlTexts
    /\ in_tgt \in XmlTexts
    /\ src_data = None
    /\ tgt_data = None
    /\ diff = None
    /\ CallIdle

ParseSource ==
    /\ parse_pc = "input"
    /\ LET r == _parse_layout(in_src)
       IN  /\ parse_pc' = IF r.ok THEN "src_parsed" ELSE "raised"
           /\ src_data' = IF r.ok THEN Some(r.value) ELSE None
    /\ UNCHANGED <<in_src, in_tgt, tgt_data, diff>>
    /\ UNCHANGED callVars

ParseTarget ==
    /\ parse_pc = "src_parsed"
    /\ LET r == _parse_layout(in_tgt)
       IN  /\ parse_pc' = IF r.ok THEN "parsed" ELSE "raised"
           /\ tgt_data' = IF r.ok THEN Some(r.value) ELSE None
    /\ UNCHANGED <<in_src, in_tgt, src_data, diff>>
    /\ UNCHANGED callVars

CompareModels ==
    /\ parse_pc = "parsed"
    /\ diff' = Some(_compare(src_data[1], tgt_data[1]))
    /\ parse_pc' = "compared"
    /\ UNCHANGED <<in_src, in_tgt, src_data, tgt_data>>
    /\ UNCHANGED callVars

ParseNext == ParseSource \/ ParseTarget \/ CompareModels

SpecParse == ParseInit /\ [][ParseNext]_vars


\* ------------------------------------------------- claims on the pure core

SetDiffsExact(lst_missing, lst_extra, count_tgt, src_set, tgt_set) ==
    /\ Range(lst_missing) = src_set \ tgt_set
    /\ Range(lst_extra) = tgt_set \ src_set
    /\ Range(lst_missing) \cap Range(lst_extra) = {}
    /\ count_tgt = Cardinality(tgt_set)

\* C5: _compare returns, for fields, section labels and related lists alike,
\* missing = source minus target and extra = target minus source as sets, the
\* two disjoint, and the target count equal to the size of the target set.
C5_DiffIsSetDifference ==
    parse_pc = "compared" =>
        LET d == diff[1]
            s == src_data[1]
            t == tgt_data[1]
        IN  /\ SetDiffsExact(d.fields_missing_in_target, d.fields_extra_in_target,
                             d.target_field_count, s.all_fields, t.all_fields)
            /\ SetDiffsExact(d.sections_missing_in_target, d.sections_extra_in_target,
                             d.target_section_count, Keys(s.sections), Keys(t.sections))
            /\ SetDiffsExact(d.related_lists_missing_in_target,
                             d.related_lists_extra_in_target,
                             d.target_related_list_count,
                             s.related_lists, t.related_lists)

\* A comparison whose two models differ both ways in fields, sections and
\* related lists.
C5_Witness ==
    /\ parse_pc = "compared"
    /\ diff[1].fields_missing_in_target # <<>>
    /\ diff[1].fields_extra_in_target # <<>>
    /\ diff[1].sections_missing_in_target # <<>>
    /\ diff[1].sections_extra_in_target # <<>>
    /\ diff[1].related_lists_missing_in_target # <<>>
    /\ diff[1].related_lists_extra_in_target # <<>>

SectionFieldUnion(model) ==
    UNION { Range(model.sections[i].value) : i \in 1..Len(model.sections) }

\* C6: in every model _parse_layout returns, all_fields is exactly the union of
\* the field lists stored in sections.
C6_AllFieldsIsUnionOfSections ==
    src_data # None => src_data[1].all_fields = SectionFieldUnion(src_data[1])

HasRepeatedLabel(doc) ==
    \E i, j \in 1..Len(doc.sections) :
        i # j /\ SectionLabel(doc.sections[i]) = SectionLabel(doc.sections[j])

\* C7: when section elements share a label, sections holds one entry per
\* section element, in document order, each with that element's own fields.
C7_RepeatedLabelsKeptApart ==
    (src_data # None /\ HasRepeatedLabel(in_src)) =>
        LET secs == in_src.sections
            m    == src_data[1]
        IN  /\ Len(m.sections) = Len(secs)
            /\ \A i \in 1..Len(secs) :
                   /\ m.sections[i].key = SectionLabel(secs[i])
                   /\ m.sections[i].value = SectionFields(secs[i].columns)


\* ------------------------------------------- claims on compare_page_layouts

NameColumns == { "Source Layout Name", "Target Layout Name" }

\* The eighteen columns after the names and Status.
DiffColumns == Range(CSV_COLUMNS) \ (NameColumns \cup { "Status" })

\* The six difference counts.
DiffCountColumns ==
    { "Fields Missing Count", "Fields Extra Count",
      "Sections Missing Count", "Sections Extra Count",
      "Related Lists Missing Count", "Related Lists Extra Count" }

\* The six difference counts and the six totals.
CountColumns ==
    DiffCountColumns \cup
    { "Source Field Count", "Target Field Count",
      "Source Section Count", "Target Section Count",
      "Source Related List Count", "Target Related List Count" }

StatusOf(i) == csv_rows[i]["Status"]

InSource(i) == names[i] \in DOMAIN src_layouts[1]

InTarget(i) == names[i] \in DOMAIN tgt_layouts[1]

\* Both texts of the i-th name are there and both are well-formed XML.
BothParse(i) ==
    /\ InSource(i) /\ InTarget(i)
    /\ src_layouts[1][names[i]].wf /\ tgt_layouts[1][names[i]].wf

\* Both texts of the i-th name are there and one of them is not well formed.
OneFailsToParse(i) == InSource(i) /\ InTarget(i) /\ ~BothParse(i)

IsParseErrorStatus(st) == Len(st) = 3 /\ st[1] = "Parse Error: " /\ st[3] # ""

Succeeded == pc = "returned" /\ response # None /\ response[1].success

\* The two credentials are one connection descriptor: equal URL, equal token.
SameDescriptor ==
    /\ src_cred # None
    /\ tgt_cred # None
    /\ src_cred[1].instance_url = tgt_cred[1].instance_url
    /\ src_cred[1].access_token = tgt_cred[1].access_token

\* With one descriptor for both orgs, _fetch_all_layouts is called once.
OneRetrievalCall ==
    /\ submits["target"] = 0
    /\ submits["source"] <= 1
    /\ tgt_layouts # None => (submits["source"] = 1 /\ tgt_layouts = src_layouts)

ComparedWithZeroDiffs(i) ==
    /\ StatusOf(i) = <<"Compared">>
    /\ \A c \in DiffCountColumns : csv_rows[i][c] = IntCell(0)

\* C1 as stated: with one descriptor for both orgs there is one retrieval
\* call, and every requested name present in the retrieved map gets Compared
\* with the six difference counts 0.
C1_SameOrgAllPresentCompared ==
    SameDescriptor =>
        /\ OneRetrievalCall
        /\ \A i \in 1..Len(csv_rows) : InSource(i) => ComparedWithZeroDiffs(i)

\* C1 amended: with one descriptor for both orgs there is one retrieval call;
\* every requested name present in the retrieved map with well-formed XML gets
\* Compared with the six difference counts 0, and one present with XML that
\* does not parse gets Parse Error.
C1_SameOrgOneFetchZeroDiffs ==
    SameDescriptor =>
        /\ OneRetrievalCall
        /\ \A i \in 1..Len(csv_rows) :
               InSource(i) =>
                   IF src_layouts[1][names[i]].wf
                   THEN ComparedWithZeroDiffs(i)
                   ELSE IsParseErrorStatus(StatusOf(i))

\* A finished same-org run with a compared row and a parse-error row.
C1_Witness ==
    /\ Succeeded
    /\ SameDescriptor
    /\ submits["source"] = 1
    /\ \E i, j \in 1..Len(csv_rows) :
           /\ InSource(i) /\ ComparedWithZeroDiffs(i)
           /\ InSource(j) /\ IsParseErrorStatus(StatusOf(j))

\* C2: every row has the one status its case calls for: absent from both maps,
\* absent from the source map only, absent from the target map only, present
\* in both with a parse failure, present in both and parsed.
C2_StatusByCase ==
    \A i \in 1..Len(csv_rows) :
        /\ (~InSource(i) /\ ~InTarget(i)) => StatusOf(i) = <<"Not Found in Either Org">>
        /\ (~InSource(i) /\ InTarget(i))  => StatusOf(i) = <<"Source Not Found">>
        /\ (InSource(i) /\ ~InTarget(i))  => StatusOf(i) = <<"Target Not Found">>
        /\ OneFailsToParse(i)             => IsParseErrorStatus(StatusOf(i))
        /\ BothParse(i)                   => StatusOf(i) = <<"Compared">>

\* A run whose rows show a one-sided absence and a target-side parse failure.
C2_Witness ==
    /\ Succeeded
    /\ \E i, j \in 1..Len(csv_rows) :
           /\ ~InSource(i) /\ InTarget(i)
           /\ InSource(j) /\ InTarget(j)
           /\ src_layouts[1][names[j]].wf /\ ~tgt_layouts[1][names[j]].wf

CountsEmpty(i) == \A c \in CountColumns : csv_rows[i][c] = Blank

\* C3 as stated: a name in the source map only gets Source Not Found, all
\* count columns empty.
C3_SourceOnlyIsSourceNotFound ==
    \A i \in 1..Len(csv_rows) :
        (InSource(i) /\ ~InTarget(i)) =>
            (StatusOf(i) = <<"Source Not Found">> /\ CountsEmpty(i))

\* C3 amended: a name in the source map only gets Target Not Found, all count
\* columns empty.
C3_SourceOnlyIsTargetNotFound ==
    \A i \in 1..Len(csv_rows) :
        (InSource(i) /\ ~InTarget(i)) =>
            (StatusOf(i) = <<"Target Not Found">> /\ CountsEmpty(i))

\* A written report with a layout that only the source org has.
C3_Witness ==
    /\ Succeeded
    /\ \E i \in 1..Len(csv_rows) :
           InSource(i) /\ ~InTarget(i) /\ src_layouts[1][names[i]].wf

RowIsFor(row, name) ==
    row["Source Layout Name"] = name /\ row["Target Layout Name"] = name

\* C4: the report has one row per requested name, the i-th row for the i-th
\* name of the caller's list.
C4_RowsFollowCallerOrder ==
    /\ \A i \in 1..Len(csv_rows) : i <= Len(names) /\ RowIsFor(csv_rows[i], names[i])
    /\ csv_file # None =>
           /\ Len(csv_file[1].rows) = Len(names)
           /\ \A i \in 1..Len(names) : RowIsFor(csv_file[1].rows[i], names[i])

\* A written report for B, A, B where both orgs hold both layouts.
C4_Witness ==
    /\ csv_file # None
    /\ names = << <<"B">>, <<"A">>, <<"B">> >>
    /\ DOMAIN src_layouts[1] = { <<"A">>, <<"B">> }
    /\ DOMAIN tgt_layouts[1] = { <<"A">>, <<"B">> }

NotFoundStatuses ==
    { <<"Not Found in Either Org">>, <<"Source Not Found">>, <<"Target Not Found">> }

\* C8: a name present in a map, were it with empty content, is never reported
\* as not found in that org; each not-found status goes to absent names only.
C8_EmptyIsNotAbsent ==
    \A i \in 1..Len(csv_rows) :
        /\ InSource(i) =>
               StatusOf(i) \notin { <<"Source Not Found">>, <<"Not Found in Either Org">> }
        /\ InTarget(i) =>
               StatusOf(i) \notin { <<"Target Not Found">>, <<"Not Found in Either Org">> }
        /\ StatusOf(i) \in NotFoundStatuses => (~InSource(i) \/ ~InTarget(i))

\* A row for a name whose source text is empty and which the target lacks,
\* and a row for a name whose text is empty on both sides.
C8_Witness ==
    \E i, j \in 1..Len(csv_rows) :
        /\ InSource(i) /\ src_layouts[1][names[i]] = EmptyText /\ ~InTarget(i)
        /\ InSource(j) /\ src_layouts[1][names[j]] = EmptyText
        /\ InTarget(j) /\ tgt_layouts[1][names[j]] = EmptyText

\* C9: a parse failure marks its own row Parse Error and no other row; the
\* loop goes on, and the call ends with one row per requested name.
C9_ParseErrorIsPerRow ==
    /\ \A i \in 1..Len(csv_rows) : IsParseErrorStatus(StatusOf(i)) <=> OneFailsToParse(i)
    /\ pc = "classify" => Len(csv_rows) = idx - 1
    /\ (pc = "returned" /\ tgt_layouts # None) => Len(csv_rows) = Len(names)
    /\ Succeeded => csv_file # None /\ Len(csv_file[1].rows) = Len(names)

\* A written report of three rows, the second alone a parse error.
C9_Witness ==
    /\ Succeeded
    /\ Len(csv_rows) = 3
    /\ IsParseErrorStatus(StatusOf(2))
    /\ StatusOf(1) = <<"Compared">>
    /\ StatusOf(3) = <<"Compared">>

RowHasNoDiff(row) == \A c \in DiffColumns : row[c] = Blank

\* C10: a row whose status is not Compared has its eighteen columns after
\* Status empty, the two names filled.
C10_OnlyComparedRowsCarryDiffs ==
    /\ \A i \in 1..Len(csv_rows) :
           StatusOf(i) # <<"Compared">> =>
               /\ RowHasNoDiff(csv_rows[i])
               /\ csv_rows[i]["Source Layout Name"] # Blank
               /\ csv_rows[i]["Target Layout Name"] # Blank
    /\ csv_file # None =>
           \A i \in 1..Len(csv_file[1].rows) :
               csv_file[1].rows[i]["Status"] # <<"Compared">> =>
                   RowHasNoDiff(csv_file[1].rows[i])

\* A written report with a not-found row and a parse-error row.
C10_Witness ==
    /\ csv_file # None
    /\ \E i, j \in 1..Len(csv_rows) :
           /\ StatusOf(i) \in NotFoundStatuses
           /\ IsParseErrorStatus(StatusOf(j))

\* ------------------------------------------------------------------ C11

\* The call has returned an error response whose exception is of this type.
ReturnedError(type) ==
    /\ pc = "returned"
    /\ response # None
    /\ response[1].success = FALSE
    /\ response[1].error.type = type

TimedOut == ReturnedError("TimeoutError")

\* The loop condition of line 154 is false: the clock has reached the deadline.
DeadlinePassed == pc = "poll" /\ ~(elapsed < DeadlineSeconds)

NothingReported == csv_rows = <<>> /\ summary = <<>> /\ csv_file = None

\* After the step: the map of the org the running fetch retrieves from.
FetchedLayouts == IF fetch_side = "source" THEN src_layouts' ELSE tgt_layouts'

\* C11: when the deadline of 120 s passes with no poll answered "done", the
\* fetch ends with a TimeoutError: the call returns it, the org's map is never
\* assigned (no partial map), and no report row and no file is written.
C11_DeadlineEndsInTimeout ==
    /\ [][DeadlinePassed =>
            /\ TimedOut'
            /\ FetchedLayouts = None
            /\ NothingReported']_vars
    /\ [](TimedOut => tgt_layouts = None /\ NothingReported)

\* The target's retrieval timed out after the source's map was retrieved.
C11_Witness == TimedOut /\ src_layouts # None /\ NothingReported

\* ------------------------------------------------------------------ C12

\* The call has returned an error response.
ReturnedAnError ==
    pc = "returned" /\ response # None /\ response[1].success = FALSE

\* _soap_post raised on this answer, or the answer has no <id> element.
NoJobId(r) == ~r.http_ok \/ ~r.wf \/ r.id = None

\* _soap_post raised on this answer, or the answer reports the job as failed.
PollFails(r) == ~r.http_ok \/ ~r.wf \/ (Done(r) /\ Failed(r))

\* The step is one in which an org could not be reached: its credentials do
\* not resolve, its submit gives no job id, a poll fails or reports failure,
\* or the deadline has passed.
OrgErrorStep ==
    \/ pc = "creds_source" /\ src_cred' = None
    \/ pc = "creds_target" /\ tgt_cred' = None
    \/ pc = "submit" /\ NoJobId(received'[1])
    \/ pc = "poll" /\ received' # None /\ PollFails(received'[1])
    \/ DeadlinePassed

OrgContexts ==
    { "compare_page_layouts (source org)", "compare_page_layouts (target org)",
      "compare_page_layouts (fetch source layouts)",
      "compare_page_layouts (fetch target layouts)" }

\* C12: a step in which an org-level error occurs (credentials, protocol,
\* retrieve failed, timeout; source or target) ends the call with an error
\* response, and a call that returned such an error has written no file.
C12_OrgErrorAbortsWithoutFile ==
    /\ [][OrgErrorStep =>
            /\ ReturnedAnError'
            /\ response'[1].context \in OrgContexts
            /\ csv_file' = None]_vars
    /\ [](ReturnedAnError /\ response[1].context \in OrgContexts => csv_file = None)

\* The step just taken posted a status request and acted on its answer.
StatusAnswered ==
    sent # None /\ sent[1].body.action = "checkRetrieveStatus" /\ received # None

\* The target's retrieval was reported failed after the source's map was
\* retrieved.
C12_Witness ==
    /\ ReturnedAnError
    /\ response[1].context = "compare_page_layouts (fetch target layouts)"
    /\ response[1].error.type = "RuntimeError"
    /\ StatusAnswered /\ Done(received[1]) /\ Failed(received[1])
    /\ src_layouts # None
    /\ csv_file = None

\* ------------------------------------------------------------------ C13

\* The answer reports the job as failed: Failed is the status of a job that is
\* done, and the loop reads <status> only in an answer whose <done> is true.
ReportsFailure(r) == r.http_ok /\ r.wf /\ Done(r) /\ Failed(r)

YieldsNoJobId(r) == NoJobId(r) \/ r.id = Some("")

\* C14: a submit whose answer yields no job id (malformed answer, id missing
\* or empty) ends the retrieval at once with an error, and no status request
\* is posted for it.
C14_NoJobIdIsProtocolError ==
    [][(pc = "submit" /\ YieldsNoJobId(received'[1])) =>
          /\ ReturnedAnError'
          /\ pc' # "poll"]_vars

\* ------------------------------------------------------------------ C15

\* C15: an archive entry whose bytes are not UTF-8 does not abort the
\* extraction or the run (the entry is left out of the map and the artifact
\* is later classified as not found): no call ends on the decoding error of
\* an entry.
C15_UndecodableEntryIsSkipped == ~ReturnedError("UnicodeDecodeError")

\* ------------------------------------------------------------------ C16

NoNetworkActivity ==
    /\ src_cred = None /\ tgt_cred = None
    /\ \A s \in Sides : submits[s] = 0
    /\ sent = None /\ received = None
    /\ src_layouts = None /\ tgt_layouts = None

\* C16: when no non-blank name is left after the split on commas and the
\* strip, the call returns the error response of line 438 with no credentials
\* resolved, no request posted and no row or file written.
C16_EmptyNamesRejectedFirst ==
    (pc # "start" /\ names = <<>>) =>
        /\ ReturnedError("ValueError")
        /\ NoNetworkActivity
        /\ NothingReported

\* A call with only blank names has returned.
C16_Witness == pc = "returned" /\ names = <<>> /\ ReturnedError("ValueError")

\* ------------------------------------------------------------------ C17

CredentialContexts ==
    { "compare_page_layouts (source org)", "compare_page_layouts (target org)" }

\* The response is the error of a credential resolution.
CredentialFailed ==
    /\ response # None
    /\ response[1].success = FALSE
    /\ response[1].context \in CredentialContexts

\* The step resolves the credentials of an org and fails.
CredentialStepFails ==
    \/ pc = "creds_source" /\ src_cred' = None
    \/ pc = "creds_target" /\ tgt_cred' = None

\* C17: a credential resolution that fails, for the source or for the target,
\* ends the call in that step with the error; the resolution is not tried
\* again, and no retrieve or status request is posted for either org.
C17_CredentialFailureIsImmediate ==
    /\ [][CredentialStepFails => ReturnedAnError' /\ CredentialFailed']_vars
    /\ [](CredentialFailed =>
            /\ pc = "returned"
            /\ src_cred = None \/ tgt_cred = None
            /\ \A s \in Sides : submits[s] = 0
            /\ sent = None /\ received = None
            /\ src_layouts = None /\ tgt_layouts = None
            /\ NothingReported)

\* The target's credentials did not resolve after the source's did.
C17_Witness ==
    /\ ReturnedAnError
    /\ response[1].context = "compare_page_layouts (target org)"
    /\ src_cred # None
    /\ tgt_cred = None
    /\ \A s \in Sides : submits[s] = 0

\* ------------------------------------------------------------------ C18

\* The step posts the retrieve request of the running fetch: its first
\* request, with one member per requested name, in the caller's order.
SubmitNamesEveryArtifact ==
    pc = "submit" =>
        /\ polls = 0
        /\ submits[fetch_side] = 0 /\ submits'[fetch_side] = 1
        /\ sent'[1].body.action = "retrieve"
        /\ sent'[1].body.name = "Layout"
        /\ sent'[1].body.members = names

\* The job id of the polls is the one the answer to the submit returned.
JobIdIsTheOneReturned ==
    (pc = "submit" /\ pc' = "poll") => retrieve_id' = received'[1].id

\* The step posts a status request: it carries that job id, and no further
\* retrieve request goes out.
PollCarriesJobId ==
    (pc = "poll" /\ elapsed < DeadlineSeconds) =>
        /\ sent'[1].body.action = "checkRetrieveStatus"
        /\ sent'[1].body.asyncProcessId = retrieve_id[1]
        /\ retrieve_id' \in { retrieve_id, None }
        /\ submits' = submits

\* C18: a call of _fetch_all_layouts posts exactly one retrieve request, which
\* names every requested layout by its own member element, before any status
\* request; every status request carries the job id that submit returned; no
\* second retrieve request is posted, whatever the polls answer.
C18_OneSubmitPollsCarryItsId ==
    /\ [][SubmitNamesEveryArtifact /\ JobIdIsTheOneReturned /\ PollCarriesJobId]_vars
    /\ [](\A s \in Sides : submits[s] <= 1)

\* ------------------------------------------------------------------ C19

\* The answer reports the job as done and not failed, and its <zipFile>
\* element is missing or has no text.
CompletedEmpty(r) ==
    /\ r.http_ok /\ r.wf
    /\ r.done = Some("true")
    /\ r.status # Some("Failed")
    /\ r.zipFile \in { None, Some("") }

SourceAbsentStatuses == { <<"Source Not Found">>, <<"Not Found in Either Org">> }

TargetAbsentStatuses == { <<"Target Not Found">>, <<"Not Found in Either Org">> }

\* C19: a poll answered "done", not failed, with a missing or empty payload
\* makes _fetch_all_layouts return the empty map: no error is returned, the
\* call goes on, and every name gets a row that says not found in that org.
C19_EmptyPayloadIsEmptyMap ==
    /\ [][(pc = "poll" /\ received' # None /\ CompletedEmpty(received'[1])) =>
             /\ FetchedLayouts = Some(EmptyMap)
             /\ response' = None
             /\ pc' \in { "submit", "classify" }]_vars
    /\ [](/\ \A i \in 1..Len(csv_rows) :
                /\ src_layouts = Some(EmptyMap) => StatusOf(i) \in SourceAbsentStatuses
                /\ tgt_layouts = Some(EmptyMap) => StatusOf(i) \in TargetAbsentStatuses
          /\ (Succeeded /\ Some(EmptyMap) \in { src_layouts, tgt_layouts }) =>
                 /\ Len(csv_rows) = Len(names)
                 /\ csv_file # None)

\* The target's retrieval has just ended on a payload without text, after a
\* source retrieval that found layouts.
C19_Witness ==
    /\ pc = "classify"
    /\ StatusAnswered
    /\ CompletedEmpty(received[1])
    /\ received[1].zipFile = Some("")
    /\ tgt_layouts = Some(EmptyMap)
    /\ src_layouts \notin { None, Some(EmptyMap) }

\* ------------------------------------------------------------------ C20

\* The layoutItems of a section, over all its columns, in document order.
RECURSIVE ItemsInOrder(_)
ItemsInOrder(columns) ==
    IF columns = <<>> THEN <<>>
    ELSE Head(columns) \o ItemsInOrder(Tail(columns))

\* An item without field reference: no <field> child, or one whose text is
\* empty or white space only.
IsSpacer(item) == item = None \/ strip(item[1]) = <<>>

\* The field names of a section with its spacers taken out, in document order.
FieldsInOrder(section) ==
    LET refs == SelectSeq(ItemsInOrder(section.columns), LAMBDA item : ~IsSpacer(item))
    IN  [i \in 1..Len(refs) |-> strip(refs[i][1])]

IsBlankName(f) == strip(f) = <<>>

\* What the claim says of the model parsed from the document doc.
SpacersSkipped(doc, model) ==
    /\ \A f \in model.all_fields : ~IsBlankName(f)
    /\ \A i \in 1..Len(model.sections) :
           /\ \A j \in 1..Len(model.sections[i].value) :
                  ~IsBlankName(model.sections[i].value[j])
           /\ \E k \in 1..Len(doc.sections) :
                  /\ SectionLabel(doc.sections[k]) = model.sections[i].key
                  /\ model.sections[i].value = FieldsInOrder(doc.sections[k])
    /\ model.all_fields =
           UNION { Range(FieldsInOrder(doc.sections[k])) : k \in 1..Len(doc.sections) }

\* C20: in every parsed model a layout item without field reference (missing,
\* empty or blank <field>) adds nothing: all_fields and every section's field
\* list hold no empty or blank name, and each field list is the section's
\* field names in document order with the spacers taken out.
C20_SpacersContributeNothing ==
    /\ src_data # None => SpacersSkipped(in_src, src_data[1])
    /\ tgt_data # None => SpacersSkipped(in_tgt, tgt_data[1])

\* A parsed section with a missing, an empty and a blank field reference
\* between its fields N, P and Q.
C20_Witness ==
    /\ src_data # None
    /\ \E k \in 1..Len(in_src.sections) :
           LET items == ItemsInOrder(in_src.sections[k].columns)
           IN  /\ None \in Range(items)
               /\ Some(<<>>) \in Range(items)
               /\ \E i \in 1..Len(src_data[1].sections) :
                      src_data[1].sections[i].value = << <<"N">>, <<"P">>, <<"Q">> >>

\* ------------------------------------------------------------------ C21

\* The retrieval of the target org has started.
TargetRetrievalStarted == fetch_side = "target" \/ submits["target"] > 0

\* An artifact has been classified, or the loop over the names is running.
Classifying == pc = "classify" \/ csv_rows # <<>> \/ summary # <<>> \/ idx > 1

\* C21: the call is sequential. The target's retrieval starts only after the
\* source's has returned its map, and the loop classifies only after both
\* maps are there and no retrieval runs; with same_org the source's map serves
\* for the target and no request goes to the target.
C21_SourceThenTargetThenClassify ==
    /\ TargetRetrievalStarted =>
           /\ src_layouts # None
           /\ submits["source"] = 1
           /\ ~same_org
    /\ Classifying =>
           /\ src_layouts # None /\ tgt_layouts # None
           /\ fetch_side = "none"
           /\ retrieve_id = None
           /\ submits["source"] = 1
           /\ IF same_org
              THEN submits["target"] = 0 /\ tgt_layouts = src_layouts
              ELSE submits["target"] = 1

\* Rows are classified after two retrievals, source then target.
C21_Witness ==
    /\ pc = "classify"
    /\ ~same_org
    /\ submits["source"] = 1 /\ submits["target"] = 1
    /\ Len(csv_rows) = 2

\* ------------------------------------------------------------------ C22

\* The number of sleeps that fit before the deadline.
MaxPolls == DeadlineSeconds \div SleepSeconds

\* The step ends the running call of _fetch_all_layouts.
FetchEnds == fetch_side \in Sides /\ fetch_side' # fetch_side

\* After the step: the exception the call has returned.
RaisedError == response'[1].error

\* The ways a call of _fetch_all_layouts ends, each told by the state after
\* the step that ends it.
EndsWithMap == FetchedLayouts # None /\ response' = None

EndsWithoutJobId ==
    ReturnedAnError' /\ RaisedError = Exc("RuntimeError", <<"No retrieve ID returned">>)

EndsOnReportedFailure ==
    /\ ReturnedAnError'
    /\ RaisedError.type = "RuntimeError"
    /\ RaisedError.msg[1] = "Retrieve failed: "

EndsOnTimeout == ReturnedAnError' /\ RaisedError.type = "TimeoutError"

EndsOnHttpError ==
    ReturnedAnError' /\ RaisedError \in { HttpError("retrieve"), HttpError("checkRetrieveStatus") }

EndsOnMalformedAnswer == ReturnedAnError' /\ RaisedError = XMLSyntaxError

EndsOnUndecodableEntry == ReturnedAnError' /\ RaisedError.type = "UnicodeDecodeError"

\* How many of these outcomes the step has.
CountTrue(outcomes) == Cardinality({ i \in 1..Len(outcomes) : outcomes[i] })

\* The clock and the polls of the running loop: 3 s per sleep, no status
\* request once the deadline is reached, at most forty status requests; every
\* step of a running call ends it or brings it nearer to its end.
PollsAreBounded ==
    /\ (pc = "poll" /\ sent' # None) =>
           /\ elapsed < DeadlineSeconds
           /\ polls < MaxPolls
           /\ pc' = "poll" => (elapsed' = elapsed + SleepSeconds /\ polls' = polls + 1)
    /\ DeadlinePassed => (sent' = None /\ FetchEnds)
    /\ (fetch_side \in Sides /\ ~FetchEnds) =>
           \/ pc = "submit" /\ pc' = "poll"
           \/ pc = "poll" /\ pc' = "poll" /\ polls' > polls
           \/ pc = "poll" /\ pc' = "decode"
           \/ pc = "decode" /\ pc' = "extract"

ClockIsBounded ==
    /\ polls <= MaxPolls
    /\ elapsed <= DeadlineSeconds
    /\ pc = "poll" => elapsed = SleepSeconds * polls
    /\ fetch_side \in Sides => ENABLED (Submit \/ Poll \/ PollTimeout \/ Decode \/ Extract)

SummaryStatusOf(st) ==
    CASE st = <<"Compared">> -> "compared"
      [] st = <<"Not Found in Either Org">> -> "not_found_both"
      [] st = <<"Source Not Found">> -> "source_not_found"
      [] st = <<"Target Not Found">> -> "target_not_found"
      [] OTHER -> "parse_error"

\* The counters of the response in which the i-th summary entry is counted.
CountersOf(entry) ==
    { c \in { "compared", "not_found", "errors" } :
         \/ c = "compared" /\ entry.status = "compared"
         \/ c = "not_found" /\ entry.status \in
                { "not_found_both", "source_not_found", "target_not_found" }
         \/ c = "errors" /\ entry.status = "parse_error" }

\* How many summary entries are counted in counter c.
CountedIn(summ, c) == Cardinality({ i \in 1..Len(summ) : c \in CountersOf(summ[i]) })

\* C23: in a success response the summary has one entry per row of the
\* report, in the order of the rows; every entry is counted in exactly one of
\* compared, not_found and errors, and the three add up to total_layouts,
\* which is the number of requested names.
C23_SummaryMirrorsRows ==
    Succeeded =>
        LET resp == response[1]
            rows == csv_file[1].rows
        IN  /\ Len(resp.summary) = Len(rows)
            /\ Len(rows) = Len(names)
            /\ \A i \in 1..Len(rows) :
                   /\ RowIsFor(rows[i], resp.summary[i].layout)
                   /\ resp.summary[i].layout = names[i]
                   /\ resp.summary[i].status = SummaryStatusOf(rows[i]["Status"])
                   /\ Cardinality(CountersOf(resp.summary[i])) = 1
            /\ resp.compared = CountedIn(resp.summary, "compared")
            /\ resp.not_found = CountedIn(resp.summary, "not_found")
            /\ resp.errors = CountedIn(resp.summary, "errors")
            /\ resp.compared + resp.not_found + resp.errors = resp.total_layouts
            /\ resp.total_layouts = Len(names)

\* A success response for three names, with a parse error next to not-found
\* rows.
C23_Witness ==
    /\ Succeeded
    /\ response[1].total_layouts = 3
    /\ response[1].errors >= 1
    /\ response[1].not_found >= 1
    /\ response[1].errors + response[1].not_found = 3

\* ------------------------------------------------------------------ C24

\* How often the separator "; " of _cell occurs in a cell.
RECURSIVE SeparatorCount(_)
SeparatorCount(cell) ==
    IF Len(cell) < 2 THEN 0
    ELSE IF cell[1] = ";" /\ cell[2] = " "
    THEN 1 + SeparatorCount(SubSeq(cell, 3, Len(cell)))
    ELSE SeparatorCount(Tail(cell))

\* The number of entries a reader finds in a list cell: none in an empty
\* cell, else one more than there are separators.
EntriesIn(cell) == IF cell = Blank THEN 0 ELSE SeparatorCount(cell) + 1

\* The six columns of one kind of difference.
Family(missing, extra, missing_count, extra_count, source_count, target_count) ==
    [missing |-> missing, extra |-> extra, missing_count |-> missing_count,
     extra_count |-> extra_count, source_count |-> source_count,
     target_count |-> target_count]

Families ==
    { Family("Fields Missing in Target", "Fields Extra in Target",
             "Fields Missing Count", "Fields Extra Count",
             "Source Field Count", "Target Field Count"),
      Family("Sections Missing in Target", "Sections Extra in Target",
             "Sections Missing Count", "Sections Extra Count",
             "Source Section Count", "Target Section Count"),
      Family("Related Lists Missing in Target", "Related Lists Extra in Target",
             "Related Lists Missing Count", "Related Lists Extra Count",
             "Source Related List Count", "Target Related List Count") }

\* Each difference count is the number of entries of its list cell.
CountsMatchLists(row, f) ==
    /\ row[f.missing_count][1] = EntriesIn(row[f.missing])
    /\ row[f.extra_count][1] = EntriesIn(row[f.extra])

\* The differences are parts of the totals, and what is left is the same on
\* both sides.
CountsBalance(row, f) ==
    /\ row[f.missing_count][1] <= row[f.source_count][1]
    /\ row[f.extra_count][1] <= row[f.target_count][1]
    /\ row[f.source_count][1] - row[f.missing_count][1]
           = row[f.target_count][1] - row[f.extra_count][1]

\* C24: in every row with status Compared, for fields, sections and related
\* lists alike, each difference count is the number of entries in its list
\* column, Missing Count <= Source Count, Extra Count <= Target Count, and
\* Source Count - Missing Count = Target Count - Extra Count.
C24_CountsAgreeWithLists ==
    \A i \in 1..Len(csv_rows) :
        StatusOf(i) = <<"Compared">> =>
            \A f \in Families :
                CountsMatchLists(csv_rows[i], f) /\ CountsBalance(csv_rows[i], f)

=============================================================================
